---- MODULE Spec2Model ----
(***************************************************************************)
(* A model of dynamo-backup-to-s3: the DynamoBackup orchestrator           *)
(* (backupAllTables, backupTable, _copyTable, _streamItems, _fetchTables,  *)
(* _formatForDataPipeline) and the ReadableStream sink that bridges the    *)
(* scan callbacks to the S3 uploader.                                      *)
(*                                                                         *)
(* JavaScript runs every callback to completion before the next one        *)
(* starts, so each action below is one whole callback (or one whole API    *)
(* call) of the source.  The storage service, the uploader and the         *)
(* consumer side of the stream are the environment: what the service will  *)
(* answer is fixed by the variables account and db, chosen in Init.        *)
(* The 'error' event is assumed to have a listener (an EventEmitter        *)
(* without one throws on emit('error')).                                   *)
(***************************************************************************)
EXTENDS Integers, Sequences, FiniteSets, TLC

\* ------------------------------------------------------------------ bounds
\* The longest scan (in pages) and the largest page (in items) of a table.
MaxPages == 2
MaxItems == 2
\* The stream's highWaterMark, counted in tokens of the serialized text
\* (Node's default is 16384 bytes; scaled down with the items).
HighWaterMark == 12

\* ------------------------------------------------------- values and errors
TableNames == {"T1", "T2"}
NoErr == "null"
NoName == ""
\* Scan keys: NoKey is an absent LastEvaluatedKey / ExclusiveStartKey,
\* EmptyKey is the object {} and a positive key k resumes after page k.
NoKey == 0
EmptyKey == -1
\* scanFailAt: no request fails / describeTable fails / the n-th scan fails.
NoFail == -1
DescribeFails == 0

\* Idiom: CHOOSE out \in {F(x) : x \in {e}} : TRUE is F(e) with e computed
\* once (as a JavaScript local is), and \E x \in {e} : A(x) likewise.

\* JavaScript values: strings, undefined, objects and arrays.  An object is
\* its members in insertion order (what _.each and JSON.stringify walk).
Str(s) == [ty |-> "str", s |-> s, kv |-> <<>>]
Undefined == [ty |-> "undef", s |-> "", kv |-> <<>>]
Obj(kv) == [ty |-> "obj", s |-> "", kv |-> kv]
Arr(xs) == [ty |-> "arr", s |-> "", kv |-> [i \in 1..Len(xs) |-> [k |-> ToString(i - 1), v |-> xs[i]]]]
Member(k, v) == [k |-> k, v |-> v]

IndexOfKey(kv, k) ==
    IF \E i \in 1..Len(kv) : kv[i].k = k
    THEN CHOOSE i \in 1..Len(kv) : kv[i].k = k /\ \A j \in 1..(i - 1) : kv[j].k # k
    ELSE 0
GetProp(o, k) ==
    LET i == IndexOfKey(o.kv, k) IN IF i = 0 THEN Undefined ELSE o.kv[i].v
SetProp(o, k, v) ==
    LET i == IndexOfKey(o.kv, k)
    IN  IF i = 0 THEN [o EXCEPT !.kv = Append(@, Member(k, v))]
        ELSE [o EXCEPT !.kv[i].v = v]
Keys(o) == [i \in 1..Len(o.kv) |-> o.kv[i].k]

\* JSON.stringify, as the sequence of tokens of the text.  A member whose
\* value is undefined is left out of an object and is null in an array.
RECURSIVE Stringify(_)
RECURSIVE StringifyMembers(_, _)
RECURSIVE StringifyElements(_, _)
Stringify(v) ==
    CASE v.ty = "str" -> <<v.s>>
      [] v.ty = "undef" -> <<"null">>
      [] v.ty = "obj" -> <<"{">> \o StringifyMembers(v.kv, FALSE) \o <<"}">>
      [] v.ty = "arr" -> <<"[">> \o StringifyElements(v.kv, FALSE) \o <<"]">>
StringifyMembers(kv, comma) ==
    IF kv = <<>> THEN <<>>
    ELSE IF Head(kv).v.ty = "undef" THEN StringifyMembers(Tail(kv), comma)
    ELSE (IF comma THEN <<",">> ELSE <<>>) \o <<Head(kv).k, ":">>
         \o Stringify(Head(kv).v) \o StringifyMembers(Tail(kv), TRUE)
StringifyElements(kv, comma) ==
    IF kv = <<>> THEN <<>>
    ELSE (IF comma THEN <<",">> ELSE <<>>) \o Stringify(Head(kv).v)
         \o StringifyElements(Tail(kv), TRUE)

\* ------------------------------------------------ _formatForDataPipeline
Throw == "!throw"
KnownTags == {"S", "N", "B", "BOOL", "NULL", "SS", "NS", "BS", "M", "L"}
ToLowerCase(type) ==
    CASE type = "S" -> "s" [] type = "N" -> "n" [] type = "B" -> "b"
      [] type = "M" -> "m" [] type = "L" -> "l" [] type = "NULL" -> "null"
GetDataPipelineAttributeValueKey(type) ==
    CASE type \in {"S", "N", "B", "M", "L", "NULL"} -> ToLowerCase(type)
      [] type = "BOOL" -> "bOOL"
      [] type = "SS" -> "sS"
      [] type = "NS" -> "nS"
      [] type = "BS" -> "bS"
      [] OTHER -> Throw

\* (mutant: the values of M and L are not visited.)
RECURSIVE FormatEachKeyShallow(_, _, _)
FormatEachKeyShallow(value, ks, j) ==
    IF j > Len(ks) THEN [thrown |-> FALSE, obj |-> value]
    ELSE LET k == ks[j]
             v == GetProp(value, k)
             dataPipelineValueKey == GetDataPipelineAttributeValueKey(k)
         IN  IF dataPipelineValueKey = Throw THEN [thrown |-> TRUE, obj |-> value]
             ELSE FormatEachKeyShallow(SetProp(SetProp(value, dataPipelineValueKey, v), k, Undefined), ks, j + 1)
\* The two nested _.each loops.  The source mutates the item in place; here
\* each loop returns the mutated object, and thrown when the key lookup
\* threw (the exception leaves every enclosing loop).
RECURSIVE FormatEachAttribute(_, _)
RECURSIVE FormatEachKey(_, _, _)
FormatEachKey(value, ks, j) ==
    IF j > Len(ks) THEN [thrown |-> FALSE, obj |-> value]
    ELSE LET k == ks[j]
             v == GetProp(value, k)
             dataPipelineValueKey == GetDataPipelineAttributeValueKey(k)
         IN  IF dataPipelineValueKey = Throw THEN [thrown |-> TRUE, obj |-> value]
             ELSE LET renamed == SetProp(SetProp(value, dataPipelineValueKey, v), k, Undefined)
                  IN  IF k \in {"M", "L"}
                      THEN LET r == FormatEachAttribute(v, 1)
                           IN  IF r.thrown THEN [thrown |-> TRUE, obj |-> renamed]
                               ELSE FormatEachKey(SetProp(renamed, dataPipelineValueKey, r.obj), ks, j + 1)
                      ELSE FormatEachKey(renamed, ks, j + 1)
FormatEachAttribute(item, i) ==
    IF item.ty \notin {"obj", "arr"} \/ i > Len(item.kv) THEN [thrown |-> FALSE, obj |-> item]
    ELSE LET value == item.kv[i].v
         IN  IF value.ty # "obj" THEN FormatEachAttribute(item, i + 1)
             ELSE CHOOSE out \in {IF r.thrown THEN [thrown |-> TRUE, obj |-> item]
                                  ELSE FormatEachAttribute([item EXCEPT !.kv[i].v = r.obj], i + 1)
                                  : r \in {FormatEachKey(value, Keys(value), 1)}} : TRUE
FormatForDataPipeline(item) ==
    CHOOSE out \in {IF r.thrown THEN [thrown |-> TRUE, line |-> <<>>]
                    ELSE [thrown |-> FALSE, line |-> Stringify(r.obj)]
                    : r \in {FormatEachAttribute(item, 1)}} : TRUE

\* new Buffer(value.B).toString('base64') on every top-level B value.
Base64(v) == IF v.ty = "str" THEN Str("base64:" \o v.s) ELSE v
RECURSIVE Base64Each(_, _)
Base64Each(item, i) ==
    IF i > Len(item.kv) THEN item
    ELSE LET value == item.kv[i].v
         IN  IF value.ty = "obj" /\ GetProp(value, "B").ty = "str" /\ GetProp(value, "B").s # ""
             THEN Base64Each([item EXCEPT !.kv[i].v = SetProp(value, "B", Base64(GetProp(value, "B")))], i + 1)
             ELSE Base64Each(item, i + 1)


\* ------------------------------------------------------- ThroughputSampler
\* Math.max((ReadCapacityUnits * readPercentage) | 0, 1).  readPercentage is
\* kept in percent; | 0 truncates and wraps to a signed word of IntBits bits
\* (32 in JavaScript, scaled down with the capacities of the model).
IntBits == 16
ToInt32(n) ==
    LET m == n % (2 ^ IntBits)
    IN  IF m >= 2 ^ (IntBits - 1) THEN m - 2 ^ IntBits ELSE m
MathMax(a, b) == IF a >= b THEN a ELSE b
SampleLimit(rcu, readPercentage) ==
    MathMax(ToInt32((rcu * readPercentage) \div 100), 1)

\* ------------------------------------------------------------------- state
VARIABLES
    options,    \* the DynamoBackup instance's configuration (constructor)
    account,    \* environment: the pages of ListTables, and which request fails
    db,         \* environment: per table its capacity, pages, and failures
    agg,        \* backupAllTables: enumeration and the async.each collector
    scan,       \* per table: _copyTable / _streamItems position and requests
    stream,     \* per table: the ReadableStream (_data, Readable's buffer, ended)
    consumer,   \* per table: what the uploader has read from the stream
    upload,     \* per table: the Uploader ("idle", "sending", "done")
    trace,      \* per table: the calls and events of its backupTable, in order
    crashed     \* an exception left a callback uncaught and ended the process

vars == <<options, account, db, agg, scan, stream, consumer, upload, trace, crashed>>

Ev(ev, arg) == [ev |-> ev, arg |-> arg]
EmptyChunk == <<>>
NewLine == <<"\n">>

\* ------------------------------------------------------------- environment
\* The item at place i of page p: one attribute, id, whose typed value has
\* the tag the table holds there and a text that names the place.
ItemId(p, i) == "p" \o ToString(p) \o "i" \o ToString(i)
Typed(tag, v) == Obj(<<Member(tag, v)>>)
\* Records of several attributes: every scalar and set tag side by side, a
\* map, a list, and maps and lists inside one another.
Shapes == {"flat", "map", "list", "deep"}
ShapeItem(shape, id) ==
    CASE shape = "flat" ->
           Obj(<<Member("id", Typed("S", Str(id))), Member("n", Typed("N", Str("1"))),
                 Member("b", Typed("B", Str("AQ=="))), Member("ok", Typed("BOOL", Str("true"))),
                 Member("no", Typed("NULL", Str("true"))),
                 Member("ss", Typed("SS", Arr(<<Str("x"), Str("y")>>))),
                 Member("ns", Typed("NS", Arr(<<Str("1")>>))),
                 Member("bs", Typed("BS", Arr(<<Str("AQ==")>>)))>>)
      [] shape = "map" ->
           Obj(<<Member("id", Typed("S", Str(id))),
                 Member("m", Typed("M", Obj(<<Member("a", Typed("S", Str("x"))),
                                              Member("b", Typed("N", Str("1")))>>))),
                 Member("z", Typed("BOOL", Str("false")))>>)
      [] shape = "list" ->
           Obj(<<Member("l", Typed("L", Arr(<<Typed("S", Str("x")), Typed("N", Str("1"))>>))),
                 Member("id", Typed("S", Str(id)))>>)
      [] shape = "deep" ->
           Obj(<<Member("m", Typed("M", Obj(<<
                     Member("l", Typed("L", Arr(<<
                         Typed("M", Obj(<<Member("x", Typed("SS", Arr(<<Str("x")>>)))>>)),
                         Typed("L", Arr(<<Typed("BOOL", Str("true"))>>))>>))),
                     Member("k", Typed("NULL", Str("true")))>>))),
                 Member("id", Typed("S", Str(id)))>>)
Item(tag, p, i) ==
    IF tag \in Shapes THEN ShapeItem(tag, ItemId(p, i))
    ELSE Obj(<<Member("id", Typed(tag, Str(ItemId(p, i))))>>)
PageItems(t, p) == [i \in 1..Len(db[t].pages[p]) |-> Item(db[t].pages[p][i], p, i)]

\* ddb.scan: the page after ExclusiveStartKey; every page but the last
\* carries its own number as LastEvaluatedKey.
ServiceScan(t, startKey) ==
    LET p == startKey + 1
    IN  IF startKey >= 0 /\ p <= Len(db[t].pages)
        THEN [Items |-> PageItems(t, p), Page |-> p,
              LastEvaluatedKey |-> IF p < Len(db[t].pages) THEN p ELSE db[t].lastKey]
        ELSE [Items |-> <<>>, Page |-> p, LastEvaluatedKey |-> NoKey]

\* ddb.listTables: the page after ExclusiveStartTableName.
ListPageAfter(startName) ==
    IF startName = NoName THEN 1
    ELSE IF \E i \in 1..Len(account.pages) : account.pages[i].marker = startName
    THEN 1 + CHOOSE i \in 1..Len(account.pages) : account.pages[i].marker = startName
    ELSE Len(account.pages) + 1
ServiceListTables(startName) ==
    LET p == ListPageAfter(startName)
    IN  IF p <= Len(account.pages)
        THEN [TableNames |-> account.pages[p].names,
              LastEvaluatedTableName |-> account.pages[p].marker]
        ELSE [TableNames |-> <<>>, LastEvaluatedTableName |-> NoName]

\* ------------------------------------------------------------ ReadableStream
BufLen(buffer) ==
    LET RECURSIVE Sum(_)
        Sum(i) == IF i = 0 THEN 0 ELSE Len(buffer[i]) + Sum(i - 1)
    IN  Sum(Len(buffer))
\* Readable.push(chunk) of a string: an empty chunk adds nothing.
Push(s, chunk) ==
    IF Len(chunk) > 0 THEN [s EXCEPT !.buffer = Append(@, chunk)] ELSE s
\* _read(): push the pending chunk and clear the slot.
StreamRead(s) == [Push(s, s.data) EXCEPT !.data = EmptyChunk]
\* Readable.read(0): calls _read unless the stream has ended or the buffer
\* has reached the highWaterMark.
Read0(s) ==
    IF ~s.ended /\ BufLen(s.buffer) < HighWaterMark THEN StreamRead(s) ELSE s
\* append(data): this._data = data; this.read(0).
\* (lost keeps, for the record, every chunk that was overwritten in the slot.)
StreamAppend(s, chunk) ==
    Read0([s EXCEPT !.data = chunk,
                    !.lost = IF s.data # EmptyChunk THEN Append(@, s.data) ELSE @])
\* (mutant: end() also throws away what the stream still holds.)
StreamEndDiscarding(s) == [s EXCEPT !.ended = TRUE, !.buffer = <<>>, !.data = EmptyChunk]
\* end(): push(null).
StreamEnd(s) == [s EXCEPT !.ended = TRUE]
NewStream == [data |-> EmptyChunk, buffer |-> <<>>, ended |-> FALSE, lost |-> <<>>]


\* ------------------------------------------------------------- backupTable
\* The pipe of one table: its stream and its trace, threaded through the
\* synchronous code of a callback.
Pipe(t) == [table |-> t, stream |-> stream[t], trace |-> trace[t], thrown |-> FALSE]
Note(p, ev, arg) == [p EXCEPT !.trace = Append(@, Ev(ev, arg))]
\* stream.append(chunk), as called from itemsReceived.
AppendChunk(p, chunk) ==
    CHOOSE q \in {[Note(x, "append", chunk) EXCEPT !.stream = StreamAppend(x.stream, chunk)] : x \in {p}} : TRUE

\* One record of items.forEach: the line of the item, then the newline.  A
\* throw of _formatForDataPipeline leaves the loop before either append.
SerializeItem(item) ==
    CHOOSE out \in {IF options.saveDataPipelineFormat THEN FormatForDataPipeline(encoded)
                    ELSE [thrown |-> FALSE, line |-> Stringify(encoded)]
                    : encoded \in {IF options.base64Binary THEN Base64Each(item, 1) ELSE item}} : TRUE
\* (mutant: the newline is appended before the line.)
AppendItemNewLineFirst(p, item) ==
    LET r == SerializeItem(item)
    IN  IF r.thrown THEN [Note(p, "throw", <<>>) EXCEPT !.thrown = TRUE]
        ELSE AppendChunk(AppendChunk(p, NewLine), r.line)
AppendItem(p, item) ==
    CHOOSE q \in {IF r.thrown THEN [Note(p, "throw", <<>>) EXCEPT !.thrown = TRUE]
                  ELSE AppendChunk(AppendChunk(p, r.line), NewLine)
                  : r \in {SerializeItem(item)}} : TRUE
\* itemsReceived(items): items.forEach, in the order of the page.
RECURSIVE ForEachItem(_, _, _)
ForEachItem(p, items, i) ==
    IF i > Len(items) \/ p.thrown THEN p
    ELSE ForEachItem(AppendItem(p, items[i]), items, i + 1)
ItemsReceived(p, data) ==
    ForEachItem(Note(p, "onPage", <<data.Page>>), data.Items, 1)

\* (mutant: the scan-done callback emits no error event.)
ScanDoneSilent(p, err) ==
    [Note(Note(p, "onDone", <<err>>), "end", <<>>) EXCEPT !.stream = StreamEnd(p.stream)]
\* (mutant: the scan-done callback leaves the stream open.)
ScanDoneLeavingOpen(p, err) ==
    LET done == Note(p, "onDone", <<err>>)
    IN  IF err # NoErr THEN Note(done, "error", <<p.table, err>>) ELSE done
\* The scan-done callback of backupTable: stream.end(), then the error
\* event {table, err}.
ScanDone(p, err) ==
    LET ended == [Note(Note(p, "onDone", <<err>>), "end", <<>>) EXCEPT !.stream = StreamEnd(p.stream)]
    IN  IF err # NoErr THEN Note(ended, "error", <<p.table, err>>) ELSE ended
\* (mutant: a newline is appended after the scan-done callback.)
FinishScanAppending(t, sc, p, err) ==
    LET q == AppendChunk(ScanDone(p, err), NewLine)
    IN  /\ scan' = [scan EXCEPT ![t] = [sc EXCEPT !.state = IF err = NoErr THEN "complete" ELSE "failed"]]
        /\ stream' = [stream EXCEPT ![t] = q.stream]
        /\ trace' = [trace EXCEPT ![t] = q.trace]

\* _streamItems: issue one scan request.
ScanRequest(startKey, limit) == [ExclusiveStartKey |-> startKey, Limit |-> limit]
\* (mutant: the request goes out before the callback hands its items over.)
IssueScanBeforeItems(t, sc, p, startKey, limit) ==
    LET n == Len(trace[t])
    IN  /\ scan' = [scan EXCEPT ![t] = [sc EXCEPT !.state = "requesting",
                                                  !.requests = Append(@, ScanRequest(startKey, limit))]]
        /\ stream' = [stream EXCEPT ![t] = p.stream]
        /\ trace' = [trace EXCEPT ![t] = SubSeq(p.trace, 1, n) \o <<Ev("scan", <<startKey>>)>>
                                            \o SubSeq(p.trace, n + 1, Len(p.trace))]
IssueScan(t, sc, p, startKey, limit) ==
    /\ scan' = [scan EXCEPT ![t] = [sc EXCEPT !.state = "requesting",
                                              !.requests = Append(@, ScanRequest(startKey, limit))]]
    /\ stream' = [stream EXCEPT ![t] = p.stream]
    /\ trace' = [trace EXCEPT ![t] = Note(p, "scan", <<startKey>>).trace]
\* Leave _copyTable / _streamItems through callback(err).
FinishScan(t, sc, p, err) ==
    LET q == ScanDone(p, err)
    IN  /\ scan' = [scan EXCEPT ![t] = [sc EXCEPT !.state = IF err = NoErr THEN "complete" ELSE "failed"]]
        /\ stream' = [stream EXCEPT ![t] = q.stream]
        /\ trace' = [trace EXCEPT ![t] = q.trace]

\* The first lines of backupTable, up to the describeTable request.
StartTrace == <<Ev("start-backup", <<>>), Ev("send", <<>>), Ev("describeTable", <<>>)>>

\* describeTable answered: compute the limit and issue the first scan.
DescribeTableOk(t) ==
    /\ ~crashed
    /\ scan[t].state = "describing"
    /\ db[t].scanFailAt # DescribeFails
    /\ IssueScan(t, scan[t], Pipe(t), NoKey, SampleLimit(db[t].rcu, options.readPercentage))
    /\ UNCHANGED <<options, account, db, agg, consumer, upload, crashed>>

DescribeTableErr(t) ==
    /\ ~crashed
    /\ scan[t].state = "describing"
    /\ db[t].scanFailAt = DescribeFails
    /\ FinishScan(t, scan[t], Pipe(t), "DescribeError")
    /\ UNCHANGED <<options, account, db, agg, consumer, upload, crashed>>

\* The scan record after a successful response.
Answered(t, data) == [scan[t] EXCEPT !.responses = Append(@, data.LastEvaluatedKey)]
\* (mutant: only an absent key ends the scan.)
KeyIsLastWhenAbsent(key) == key = NoKey
\* !data.LastEvaluatedKey || _.keys(data.LastEvaluatedKey).length === 0
KeyIsLast(key) == key = NoKey \/ key = EmptyKey
\* The callback of ddb.scan on a successful response.  The callback is left
\* by the exception when a record cannot be re-keyed: nothing in the source
\* catches it, so it reaches the service client, which either loses it (the
\* table's pipeline just stops) or lets it end the process.
ScanOk(t) ==
    /\ ~crashed
    /\ scan[t].state = "requesting"
    /\ db[t].scanFailAt # Len(scan[t].requests)
    /\ \E req \in {scan[t].requests[Len(scan[t].requests)]} :
       \E data \in {ServiceScan(t, req.ExclusiveStartKey)} :
       \E p \in {IF Len(data.Items) > 0 THEN ItemsReceived(Pipe(t), data) ELSE Pipe(t)} :
           IF p.thrown
           THEN /\ scan' = [scan EXCEPT ![t].state = "thrown", ![t].responses = Append(@, data.LastEvaluatedKey)]
                /\ stream' = [stream EXCEPT ![t] = p.stream]
                /\ trace' = [trace EXCEPT ![t] = p.trace]
                /\ crashed' \in BOOLEAN
           ELSE /\ IF KeyIsLast(data.LastEvaluatedKey)
                   THEN FinishScan(t, Answered(t, data), p, NoErr)
                   ELSE IssueScan(t, Answered(t, data), p, data.LastEvaluatedKey, req.Limit)
                /\ UNCHANGED crashed
    /\ UNCHANGED <<options, account, db, agg, consumer, upload>>

\* The callback of ddb.scan on a failed request.
ScanErr(t) ==
    /\ ~crashed
    /\ scan[t].state = "requesting"
    /\ db[t].scanFailAt = Len(scan[t].requests)
    /\ FinishScan(t, scan[t], Pipe(t), "ScanError")
    /\ UNCHANGED <<options, account, db, agg, consumer, upload, crashed>>


\* ----------------------------------------------------- the uploader's side
\* The uploader reads the stream: read(n) for the first k chunks of the
\* buffer, or read() for all of it (k = 0).  Readable.read calls _read first
\* unless the stream has ended or the buffer stays at the highWaterMark.
ConsumerRead(t, k) ==
    /\ ~crashed
    /\ upload[t] = "sending"
    /\ ~consumer[t].endSeen
    /\ k <= Len(stream[t].buffer)
    /\ LET s == stream[t]
           n == IF k = 0 THEN BufLen(s.buffer) ELSE BufLen(SubSeq(s.buffer, 1, k))
           doRead == ~s.ended /\ (BufLen(s.buffer) = 0 \/ BufLen(s.buffer) - n < HighWaterMark)
           s1 == IF doRead THEN StreamRead(s) ELSE s
           m == IF k = 0 THEN Len(s1.buffer) ELSE k
       IN  /\ m > 0
           /\ stream' = [stream EXCEPT ![t] = [s1 EXCEPT !.buffer = SubSeq(@, m + 1, Len(@))]]
           /\ consumer' = [consumer EXCEPT ![t].delivered = @ \o SubSeq(s1.buffer, 1, m)]
    /\ UNCHANGED <<options, account, db, agg, scan, upload, trace, crashed>>

\* The uploader sees 'end': the stream has ended and its buffer is drained.
ConsumerEnd(t) ==
    /\ ~crashed
    /\ upload[t] = "sending"
    /\ ~consumer[t].endSeen
    /\ stream[t].ended
    /\ stream[t].buffer = <<>>
    /\ consumer' = [consumer EXCEPT ![t].endSeen = TRUE]
    /\ UNCHANGED <<options, account, db, agg, scan, stream, upload, trace, crashed>>

\* ---------------------------------------------------------- backupAllTables
\* done(err) of async.each: the first error calls back at once, otherwise
\* the callback runs when every table is done; it runs at most once.
Done(a, err) ==
    IF err # NoErr
    THEN [a EXCEPT !.calls = IF a.live THEN Append(@, err) ELSE @, !.live = FALSE]
    ELSE LET last == a.completed + 1 >= Len(a.tables)
         IN  [a EXCEPT !.completed = @ + 1,
                       !.calls = IF last /\ a.live THEN Append(@, NoErr) ELSE @,
                       !.live = IF last THEN FALSE ELSE @]
\* The callback backupAllTables hands to backupTable.
TableDone(a, err) ==
    IF err # NoErr /\ options.stopOnFailure THEN Done(a, err) ELSE Done(a, NoErr)

\* The callback of upload.send: the error event, end-backup, callback(err).
UploadCallback(t, err) ==
    LET p0 == Pipe(t)
        p1 == IF err # NoErr THEN Note(p0, "error", <<t, err>>) ELSE p0
        p2 == Note(Note(p1, "end-backup", <<>>), "callback", <<err>>)
    IN  /\ upload' = [upload EXCEPT ![t] = "done"]
        /\ trace' = [trace EXCEPT ![t] = p2.trace]
        /\ agg' = TableDone(agg, err)
        /\ UNCHANGED <<options, account, db, scan, stream, consumer, crashed>>

\* The uploader reports success once its source has ended and is drained.
UploadOk(t) ==
    /\ ~crashed
    /\ upload[t] = "sending"
    /\ consumer[t].endSeen
    /\ ~db[t].uploadFails
    /\ UploadCallback(t, NoErr)

\* The uploader fails, at any moment while it is sending.
UploadErr(t) ==
    /\ ~crashed
    /\ upload[t] = "sending"
    /\ db[t].uploadFails
    /\ UploadCallback(t, "UploadError")

\* _.difference and _.intersection on arrays of names.
Difference(xs, ys) == SelectSeq(xs, LAMBDA x : \A j \in 1..Len(ys) : ys[j] # x)
RECURSIVE Uniq(_)
Uniq(xs) ==
    IF xs = <<>> THEN <<>>
    ELSE LET front == Uniq(SubSeq(xs, 1, Len(xs) - 1))
             x == xs[Len(xs)]
         IN  IF \E j \in 1..Len(front) : front[j] = x THEN front ELSE Append(front, x)
Intersection(xs, ys) == Uniq(SelectSeq(xs, LAMBDA x : \E j \in 1..Len(ys) : ys[j] = x))
\* (mutant: the exclusion list is not applied.)
SelectTablesIncludedOnly(tables) ==
    LET includedTables == IF options.includedTables.defined THEN options.includedTables.names ELSE tables
    IN  Intersection(tables, includedTables)
\* The selection of backupAllTables: difference, then intersection.
SelectTables(tables) ==
    LET includedTables == IF options.includedTables.defined THEN options.includedTables.names ELSE tables
    IN  Intersection(Difference(tables, options.excludedTables), includedTables)
InSeq(xs, x) == \E j \in 1..Len(xs) : xs[j] = x

\* What the callback of listTables is given: callback(null, tables) or
\* callback(err, null).
Listed(err, tables) == [err |-> err, tables |-> tables, isNull |-> FALSE]
ListedNull(err) == [err |-> err, tables |-> <<>>, isNull |-> TRUE]
\* (mutant: the names gathered before the failure are passed on.)
ListTablesErrKeepingNames ==
    /\ ~crashed
    /\ agg.phase = "listing"
    /\ account.failAt = Len(agg.listRequests)
    /\ agg' = [agg EXCEPT !.phase = "failed", !.calls = Append(@, "ListError"), !.live = FALSE,
                          !.listed = Append(@, Listed("ListError", agg.names))]
    /\ UNCHANGED <<options, account, db, scan, stream, consumer, upload, trace, crashed>>
\* (mutant: tables.concat the other way round.)
ConcatNamesReversed(tables, names) == names \o tables
\* tables.concat(data.TableNames)
ConcatNames(tables, names) == tables \o names

\* backupAllTables(callback): listTables, that is the first ListTables
\* request, without a start name.
BackupAllTables ==
    /\ ~crashed
    /\ agg.phase = "idle"
    /\ agg' = [agg EXCEPT !.phase = "listing", !.listRequests = <<NoName>>]
    /\ UNCHANGED <<options, account, db, scan, stream, consumer, upload, trace, crashed>>

\* The callback of ddb.listTables on success: accumulate, then either the
\* next request or the listTables callback of backupAllTables, which selects
\* the tables and starts backupTable on each of them (async.each).
ListTablesOk ==
    /\ ~crashed
    /\ agg.phase = "listing"
    /\ account.failAt # Len(agg.listRequests)
    /\ LET data == ServiceListTables(agg.listRequests[Len(agg.listRequests)])
           tables == ConcatNames(agg.names, data.TableNames)
           selected == SelectTables(tables)
       IN  IF data.LastEvaluatedTableName # NoName
           THEN /\ agg' = [agg EXCEPT !.names = tables,
                                      !.listRequests = Append(@, data.LastEvaluatedTableName)]
                /\ UNCHANGED <<scan, upload, trace, crashed>>
           ELSE /\ agg' = [agg EXCEPT !.phase = "running", !.names = tables, !.tables = selected,
                                      !.listed = Append(@, Listed(NoErr, tables)),
                                      !.calls = IF selected = <<>> THEN <<NoErr>> ELSE @,
                                      !.live = selected # <<>>]
                /\ scan' = [t \in TableNames |->
                              IF InSeq(selected, t) THEN [scan[t] EXCEPT !.state = "describing"] ELSE scan[t]]
                /\ upload' = [t \in TableNames |-> IF InSeq(selected, t) THEN "sending" ELSE upload[t]]
                /\ trace' = [t \in TableNames |-> IF InSeq(selected, t) THEN StartTrace ELSE trace[t]]
    /\ UNCHANGED <<options, account, db, stream, consumer, crashed>>

\* The callback of ddb.listTables on failure: callback(err, null), which
\* backupAllTables passes on.
ListTablesErr ==
    /\ ~crashed
    /\ agg.phase = "listing"
    /\ account.failAt = Len(agg.listRequests)
    /\ agg' = [agg EXCEPT !.phase = "failed", !.calls = Append(@, "ListError"), !.live = FALSE,
                          !.listed = Append(@, ListedNull("ListError"))]
    /\ UNCHANGED <<options, account, db, scan, stream, consumer, upload, trace, crashed>>

\* ------------------------------------------------------------------- Init
Options ==
    [stopOnFailure : BOOLEAN, saveDataPipelineFormat : BOOLEAN, base64Binary : {FALSE},
     readPercentage : {25}, excludedTables : {<<>>},
     includedTables : {[defined |-> FALSE, names |-> <<>>]}]

\* A table of K pages of N items each; the item at place bad (counted
\* through the pages, 0 for none) has a typed-value tag outside the known set.
Pages(K, N, bad) ==
    [p \in 1..K |-> [i \in 1..N |-> IF (p - 1) * N + i = bad THEN "X" ELSE "S"]]
Capacity(N) == IF N <= 1 THEN 3 ELSE 4 * N
Tables(maxPages, maxItems) ==
    UNION {
        [rcu : {Capacity(N)}, pages : {Pages(K, N, bad) : bad \in 0..(K * N)},
         lastKey : {NoKey, EmptyKey}, scanFailAt : {NoFail} \cup 0..K, uploadFails : BOOLEAN]
        : K \in 1..maxPages, N \in 0..maxItems }
QuietTable ==
    [rcu |-> 3, pages |-> <<<<>>>>, lastKey |-> NoKey, scanFailAt |-> NoFail, uploadFails |-> FALSE]
ListPage(names, marker) == [names |-> names, marker |-> marker]

InitPipelines ==
    /\ agg = [phase |-> "idle", listRequests |-> <<>>, names |-> <<>>, tables |-> <<>>,
              completed |-> 0, calls |-> <<>>, live |-> FALSE, listed |-> <<>>]
    /\ scan = [t \in TableNames |-> [state |-> "idle", requests |-> <<>>, responses |-> <<>>]]
    /\ stream = [t \in TableNames |-> NewStream]
    /\ consumer = [t \in TableNames |-> [delivered |-> <<>>, endSeen |-> FALSE]]
    /\ upload = [t \in TableNames |-> "idle"]
    /\ trace = [t \in TableNames |-> <<>>]
    /\ crashed = FALSE

\* One table in the account, of every shape within the bounds.
Init ==
    /\ options \in Options
    /\ account \in {[pages |-> <<ListPage(<<"T1">>, NoName)>>, failAt |-> f] : f \in {NoFail, 1}}
    /\ db \in [TableNames -> Tables(MaxPages, MaxItems) \cup {QuietTable}]
    /\ db["T2"] = QuietTable
    /\ account.failAt # NoFail => db["T1"] = CHOOSE e \in Tables(1, 0) : e.scanFailAt = NoFail /\ ~e.uploadFails /\ e.lastKey = NoKey
    /\ InitPipelines

Next ==
    \/ BackupAllTables
    \/ ListTablesOk
    \/ ListTablesErr
    \/ \E t \in TableNames : DescribeTableOk(t)
    \/ \E t \in TableNames : DescribeTableErr(t)
    \/ \E t \in TableNames : ScanOk(t)
    \/ \E t \in TableNames : ScanErr(t)
    \/ \E t \in TableNames : \E k \in 0..(2 * MaxPages * MaxItems) : ConsumerRead(t, k)
    \/ \E t \in TableNames : ConsumerEnd(t)
    \/ \E t \in TableNames : UploadOk(t)
    \/ \E t \in TableNames : UploadErr(t)

Spec == Init /\ [][Next]_vars

\* Two tables in the account, listed on two pages: T1 with a failing
\* describe or scan request, T2 with none.
InitAll ==
    /\ options \in Options
    /\ account \in {[pages |-> <<ListPage(<<"T1">>, "T1"), ListPage(<<"T2">>, NoName)>>, failAt |-> f]
                      : f \in {NoFail, 2}}
    /\ db \in [TableNames -> Tables(MaxPages, 1)]
    /\ db["T1"].scanFailAt # NoFail /\ Len(db["T1"].pages) = MaxPages /\ db["T1"].lastKey = NoKey
    /\ db["T2"].scanFailAt = NoFail /\ ~db["T2"].uploadFails /\ db["T2"].lastKey = NoKey
    /\ Len(db["T1"].pages[1]) = 1 /\ Len(db["T2"].pages[1]) = 1
    /\ account.failAt # NoFail =>
          /\ db["T1"] = CHOOSE e \in Tables(MaxPages, 1) : e.scanFailAt = 1 /\ ~e.uploadFails /\ e.lastKey = NoKey /\ Len(e.pages) = MaxPages /\ Len(e.pages[1]) = 1
          /\ db["T2"] = CHOOSE e \in Tables(1, 1) : e.scanFailAt = NoFail /\ ~e.uploadFails /\ e.lastKey = NoKey /\ Len(e.pages[1]) = 1
    /\ InitPipelines

SpecAll == InitAll /\ [][Next]_vars

\* Two tables listed on one page or on two, in either order, with every
\* combination of excludedTables and includedTables (undefined, empty, or
\* naming tables); any list request may fail.
SelectOptions ==
    [stopOnFailure : {FALSE}, saveDataPipelineFormat : {FALSE}, base64Binary : {FALSE},
     readPercentage : {25},
     excludedTables : {<<>>, <<"T1">>, <<"T2">>, <<"T1", "T2">>},
     includedTables : {[defined |-> FALSE, names |-> <<>>]}
                      \cup {[defined |-> TRUE, names |-> n] : n \in {<<>>, <<"T1">>, <<"T2">>, <<"T2", "T1">>}}]
Listings ==
    { <<ListPage(<<"T1">>, "T1"), ListPage(<<"T2">>, NoName)>>,
      <<ListPage(<<"T2">>, "T2"), ListPage(<<"T1">>, NoName)>>,
      <<ListPage(<<"T1", "T2">>, NoName)>> }
OneItemTables ==
    {e \in Tables(1, 1) : /\ e.pages = <<<<"S">>>>
                          /\ e.lastKey = NoKey
                          /\ e.scanFailAt = NoFail \/ ~e.uploadFails}
InitSelect ==
    /\ options \in SelectOptions
    /\ account \in {[pages |-> l, failAt |-> f] : l \in Listings, f \in {NoFail, 1, 2}}
    /\ account.failAt <= Len(account.pages)
    /\ db \in [TableNames -> OneItemTables]
    /\ ~db["T2"].uploadFails /\ db["T2"].scanFailAt # DescribeFails
    /\ account.failAt # NoFail => \A t \in TableNames : db[t].scanFailAt = NoFail /\ ~db[t].uploadFails
    /\ InitPipelines

SpecSelect == InitSelect /\ [][Next]_vars

\* One table of every read capacity of Capacities, with readPercentage 0.01,
\* 0.25 or 1; the largest capacity makes capacity x 0.25 leave the signed
\* word of IntBits bits.
Capacities == {0, 1, 3, 1000, 2 ^ (IntBits + 1)}
LimitOptions ==
    [stopOnFailure : {FALSE}, saveDataPipelineFormat : {FALSE}, base64Binary : {FALSE},
     readPercentage : {1, 25, 100}, excludedTables : {<<>>},
     includedTables : {[defined |-> FALSE, names |-> <<>>]}]
InitLimit ==
    /\ options \in LimitOptions
    /\ account \in {[pages |-> <<ListPage(<<"T1">>, NoName)>>, failAt |-> f] : f \in {NoFail, 1}}
    /\ db \in [TableNames -> {[e EXCEPT !.rcu = c] : e \in Tables(1, 1), c \in Capacities} \cup {QuietTable}]
    /\ db["T2"] = QuietTable
    /\ db["T1"] # QuietTable
    /\ account.failAt # NoFail => db["T1"].scanFailAt = NoFail /\ ~db["T1"].uploadFails
    /\ InitPipelines

SpecLimit == InitLimit /\ [][Next]_vars

\* One table of one or two pages of one record each, the records of every
\* shape (nested ones included), exported with saveDataPipelineFormat.
FormatOptions ==
    [stopOnFailure : {FALSE}, saveDataPipelineFormat : {TRUE}, base64Binary : {FALSE},
     readPercentage : {25}, excludedTables : {<<>>},
     includedTables : {[defined |-> FALSE, names |-> <<>>]}]
FormatTables ==
    UNION {
        [rcu : {3}, pages : [1..K -> {<<shape>> : shape \in Shapes \cup {"S", "X"}}],
         lastKey : {NoKey}, scanFailAt : {NoFail, DescribeFails, K}, uploadFails : BOOLEAN]
        : K \in 1..2 }
InitFormat ==
    /\ options \in FormatOptions
    /\ account \in {[pages |-> <<ListPage(<<"T1">>, NoName)>>, failAt |-> f] : f \in {NoFail, 1}}
    /\ db \in [TableNames -> FormatTables \cup {QuietTable}]
    /\ db["T2"] = QuietTable
    /\ db["T1"] # QuietTable
    /\ account.failAt # NoFail => db["T1"].scanFailAt = NoFail /\ ~db["T1"].uploadFails
    /\ InitPipelines

SpecFormat == InitFormat /\ [][Next]_vars

\* Two tables of one page of one record, each of which may fail at its
\* describe, scan or upload, or hold a record that cannot be re-keyed.
\* Every request to the storage service is answered, and the uploader
\* keeps reading and reports once its source has ended or it has failed.
ListStep == BackupAllTables \/ ListTablesOk \/ ListTablesErr
ServiceStep(t) == DescribeTableOk(t) \/ DescribeTableErr(t) \/ ScanOk(t) \/ ScanErr(t)
UploaderStep(t) ==
    \/ \E k \in 0..(2 * MaxPages * MaxItems) : ConsumerRead(t, k)
    \/ ConsumerEnd(t)
    \/ UploadOk(t)
    \/ UploadErr(t)
Fairness ==
    /\ WF_vars(ListStep)
    /\ \A t \in TableNames : WF_vars(ServiceStep(t)) /\ WF_vars(UploaderStep(t))
InitFair ==
    /\ options \in Options
    /\ account \in {[pages |-> <<ListPage(<<"T1", "T2">>, NoName)>>, failAt |-> f] : f \in {NoFail, 1}}
    /\ db \in [TableNames -> {e \in Tables(1, 1) : e.lastKey = NoKey /\ Len(e.pages[1]) = 1}]
    /\ account.failAt # NoFail =>
          \A t \in TableNames : db[t].scanFailAt = NoFail /\ ~db[t].uploadFails /\ db[t].pages = <<<<"S">>>>
    /\ InitPipelines

SpecFair == InitFair /\ [][Next]_vars /\ Fairness


\* --------------------------------------------------------------- histories
EventsOf(t, ev) == SelectSeq(trace[t], LAMBDA e : e.ev = ev)
\* The chunks handed to stream.append, in the order of the calls.
Appended(t) == [i \in 1..Len(EventsOf(t, "append")) |-> EventsOf(t, "append")[i].arg]
AppendedLines(t) == SelectSeq(Appended(t), LAMBDA c : c # NewLine)
Pending(t) == IF stream[t].data = EmptyChunk THEN <<>> ELSE <<stream[t].data>>
IsPrefix(xs, ys) == Len(xs) <= Len(ys) /\ xs = SubSeq(ys, 1, Len(xs))
ScanEnded(t) == scan[t].state \in {"complete", "failed", "thrown"}
ScanFailed(t) == scan[t].state = "failed" /\ db[t].scanFailAt >= 1
NoServiceFailure(t) == db[t].scanFailAt = NoFail /\ ~db[t].uploadFails
RekeyFails(t) ==
    \E p \in 1..Len(db[t].pages) : \E i \in 1..Len(db[t].pages[p]) :
        SerializeItem(PageItems(t, p)[i]).thrown
ItemCount(t) ==
    LET RECURSIVE Sum(_)
        Sum(p) == IF p = 0 THEN 0 ELSE Len(db[t].pages[p]) + Sum(p - 1)
    IN  Sum(Len(db[t].pages))
\* One serialized line and one newline per record of pages 1..n of the
\* table, page by page, in the order of each page.
RECURSIVE RecordChunks(_, _)
RecordChunks(items, i) ==
    IF i > Len(items) THEN <<>>
    ELSE <<SerializeItem(items[i]).line, NewLine>> \o RecordChunks(items, i + 1)
RECURSIVE ChunksOfPages(_, _)
ChunksOfPages(t, n) ==
    IF n = 0 THEN <<>> ELSE ChunksOfPages(t, n - 1) \o RecordChunks(PageItems(t, n), 1)

\* A table's pipeline can take a step: a service request of its scan is
\* outstanding, or its uploader can read, see the end, or report.
ConsumerCanRead(t) ==
    /\ ~consumer[t].endSeen
    /\ stream[t].buffer # <<>> \/ (~stream[t].ended /\ stream[t].data # EmptyChunk)
CanStep(t) ==
    /\ ~crashed
    /\ \/ scan[t].state \in {"describing", "requesting"}
       \/ /\ upload[t] = "sending"
          /\ \/ ConsumerCanRead(t)
             \/ ~consumer[t].endSeen /\ stream[t].ended /\ stream[t].buffer = <<>>
             \/ consumer[t].endSeen /\ ~db[t].uploadFails
             \/ db[t].uploadFails

\* ------------------------------------------------------------------ claims

\* C1 (as claimed): every chunk handed to append is delivered to the
\* consumer once and in append order, none dropped or overwritten: at every
\* moment the chunks delivered, then those buffered, then the pending one
\* are exactly the chunks appended so far.
C1_EveryChunkKept ==
    \A t \in TableNames :
        consumer[t].delivered \o stream[t].buffer \o Pending(t) = Appended(t)

\* C2 (as claimed): the sink is a queue of capacity 1 towards the producer:
\* no append is made while the pending slot still holds a chunk.
C2_SlotEmptyAtAppend ==
    \A t \in TableNames : stream[t].lost = <<>>

\* C3 (as claimed): in a job none of whose service calls fails, once the
\* scan side has ended the appended chunks are one line per scanned record,
\* K x N lines in page order and item order.
C3_AllRecordsWhenNoServiceFailure ==
    \A t \in TableNames :
        (ScanEnded(t) /\ NoServiceFailure(t))
            => /\ Appended(t) = ChunksOfPages(t, Len(db[t].pages))
               /\ Len(AppendedLines(t)) = ItemCount(t)

\* C3 (amended): the appended chunks are always a prefix of the lines of the
\* scanned records in page and item order, and in a job none of whose
\* service calls fails and none of whose records fails re-keying they are,
\* once the scan side has ended, all K x N of them.
C3_AllRecordsWhenNoFailure ==
    \A t \in TableNames :
        /\ IsPrefix(Appended(t), ChunksOfPages(t, Len(db[t].pages)))
        /\ (ScanEnded(t) /\ NoServiceFailure(t) /\ ~RekeyFails(t))
            => /\ Appended(t) = ChunksOfPages(t, Len(db[t].pages))
               /\ Len(AppendedLines(t)) = ItemCount(t)
C3_Witness ==
    \E t \in TableNames :
        /\ scan[t].state = "complete"
        /\ NoServiceFailure(t)
        /\ Len(db[t].pages) = MaxPages
        /\ ItemCount(t) = MaxPages * MaxItems
        /\ Len(AppendedLines(t)) = MaxPages * MaxItems


\* C4 (as claimed): with stopOnFailure, when a table's export has failed
\* (its describe or scan request failed, or its upload failed) the aggregate
\* callback is not invoked with success.
TableFailed(t) ==
    \/ scan[t].state = "failed"
    \/ \E i \in 1..Len(trace[t]) : trace[t][i].ev = "error"
C4_FailureReachesAggregate ==
    (options.stopOnFailure /\ agg.calls # <<>> /\ \E t \in TableNames : TableFailed(t))
        => agg.calls[1] # NoErr

\* C5 (as claimed): with stopOnFailure off, a scan failure in one table
\* leaves a sibling whose own service calls all succeed unaffected: the
\* aggregate callback is never invoked with an error nor before every table
\* has finished, and when the run has come to rest the sibling's scan has
\* visited all its pages, all its records are appended, its sink is closed
\* and the aggregate callback has been invoked, without error.
Selected(t) == InSeq(agg.tables, t)
Finished(t) == \E i \in 1..Len(trace[t]) : trace[t][i].ev = "callback"
RunAtRest == crashed \/ (agg.phase = "running" /\ \A t \in TableNames : ~CanStep(t))
C5_SiblingUnaffectedByScanFailure ==
    ~options.stopOnFailure =>
        /\ agg.phase = "running" /\ agg.calls # <<>>
              => agg.calls = <<NoErr>> /\ \A t \in TableNames : Selected(t) => Finished(t)
        /\ \A a, b \in TableNames :
              (a # b /\ Selected(a) /\ Selected(b) /\ ScanFailed(a)
                 /\ NoServiceFailure(b) /\ RunAtRest)
                  => /\ scan[b].state = "complete"
                     /\ Len(scan[b].responses) = Len(db[b].pages)
                     /\ Appended(b) = ChunksOfPages(b, Len(db[b].pages))
                     /\ stream[b].ended
                     /\ agg.calls = <<NoErr>>

\* C6 (as claimed): a record with an unknown tag is fatal to its table: once
\* the re-keying has thrown, no line of that record and no later record is
\* appended, the sink has been closed, and when the table has come to rest
\* its outcome has been reported as failed.
AtRest(t) == crashed \/ ~CanStep(t)
ReportedFailed(t) ==
    \E i \in 1..Len(trace[t]) : trace[t][i].ev = "callback" /\ trace[t][i].arg # <<NoErr>>
C6_UnknownTagAbortsTable ==
    \A t \in TableNames :
        scan[t].state = "thrown"
            => /\ IsPrefix(Appended(t), ChunksOfPages(t, Len(db[t].pages)))
               /\ \A i \in 1..Len(Appended(t)) : Appended(t)[i] # <<>>
               /\ Len(AppendedLines(t)) < ItemCount(t)
               /\ stream[t].ended
               /\ AtRest(t) => ReportedFailed(t)

\* C7 (as claimed): when the consumer observes end-of-stream, every chunk
\* appended before close() has been delivered to it.
C7_EndAfterAllDelivered ==
    \A t \in TableNames :
        consumer[t].endSeen => consumer[t].delivered = Appended(t)


\* C8: within a table the request for the next page is issued only after the
\* items of the page just returned were handed to onPage and appended, and
\* the pages are handed over in the order they were returned: before the
\* m-th scan request every non-empty page below m has had its onPage, in
\* increasing order, and the chunks appended are those of pages 1..m-1.
PositionsOf(t, ev) == {i \in 1..Len(trace[t]) : trace[t][i].ev = ev}
ScansBefore(t, i) == Cardinality({j \in PositionsOf(t, "scan") : j < i})
AppendsBefore(t, i) == Cardinality({j \in PositionsOf(t, "append") : j < i})
C8_PageHandedBeforeNextRequest ==
    \A t \in TableNames :
        /\ \A i \in PositionsOf(t, "scan") :
              LET m == ScansBefore(t, i) + 1
              IN  /\ \A q \in 1..(m - 1) :
                        Len(db[t].pages[q]) > 0
                            => \E j \in PositionsOf(t, "onPage") : j < i /\ trace[t][j].arg = <<q>>
                  /\ AppendsBefore(t, i) = Len(ChunksOfPages(t, m - 1))
        /\ \A i, j \in PositionsOf(t, "onPage") :
              i < j => trace[t][i].arg[1] < trace[t][j].arg[1]
        /\ \A j \in PositionsOf(t, "onPage") :
              ScansBefore(t, j) = trace[t][j].arg[1]
C8_Witness ==
    \E t \in TableNames :
        /\ Cardinality(PositionsOf(t, "scan")) = 2
        /\ Cardinality(PositionsOf(t, "onPage")) = 2
        /\ Len(Appended(t)) = 4 * MaxItems

\* C9 (as claimed): the first request has no start key; a successful
\* response that carries a continuation token is followed by exactly one
\* further request, which starts at that token; the scan completes with
\* onDone(null) exactly when a successful response carries no token.
StartKeys(t) == [i \in 1..Len(scan[t].requests) |-> scan[t].requests[i].ExclusiveStartKey]
OnDoneNull(t) == \E i \in PositionsOf(t, "onDone") : trace[t][i].arg = <<NoErr>>
C9_ContinuationByToken ==
    \A t \in TableNames :
        LET req == StartKeys(t)
            res == scan[t].responses
        IN  /\ Len(req) >= 1 => req[1] = NoKey
            /\ Len(req) <= Len(res) + 1
            /\ \A i \in 1..Len(res) :
                  IF res[i] # NoKey
                  THEN Len(req) >= i + 1 /\ req[i + 1] = res[i]
                  ELSE Len(req) = i /\ OnDoneNull(t)
            /\ OnDoneNull(t) => Len(res) = Len(req) /\ Len(res) >= 1 /\ res[Len(res)] = NoKey

\* C9 (amended): the first request has no start key; a successful response
\* whose records were all serialized and that carries a continuation token
\* with at least one key is followed by exactly one further request, which
\* starts at that token; the scan completes with onDone(null) exactly when
\* such a response carries no token or an empty one ({}).
HasKeys(key) == key # NoKey /\ key # EmptyKey
C9_ContinuationByNonEmptyToken ==
    \A t \in TableNames :
        LET req == StartKeys(t)
            res == scan[t].responses
        IN  /\ Len(req) >= 1 => req[1] = NoKey
            /\ Len(req) <= Len(res) + 1
            /\ \A i \in 1..Len(res) :
                  IF i = Len(res) /\ scan[t].state = "thrown"
                  THEN Len(req) = i /\ ~OnDoneNull(t)
                  ELSE IF HasKeys(res[i])
                  THEN Len(req) >= i + 1 /\ req[i + 1] = res[i]
                  ELSE Len(req) = i /\ OnDoneNull(t) /\ scan[t].state = "complete"
            /\ OnDoneNull(t) => Len(res) = Len(req) /\ Len(res) >= 1 /\ ~HasKeys(res[Len(res)])
            /\ Cardinality(PositionsOf(t, "onDone")) <= 1
C9_Witness ==
    \E t \in TableNames :
        /\ scan[t].state = "complete"
        /\ StartKeys(t) = <<NoKey, 1>>
        /\ scan[t].responses = <<1, EmptyKey>>

\* C10: when a scan request fails, onDone is invoked once, with that error;
\* after it no scan request is issued, onPage is not invoked and nothing is
\* appended; the chunks appended for the earlier pages are all still there,
\* and the failing callback takes nothing out of the stream.
C10_StateAfterScanFailure ==
    \A t \in TableNames :
        ScanFailed(t) =>
            /\ Cardinality(PositionsOf(t, "onDone")) = 1
            /\ \A i \in PositionsOf(t, "onDone") :
                  /\ trace[t][i].arg = <<"ScanError">>
                  /\ \A j \in PositionsOf(t, "scan") \cup PositionsOf(t, "onPage") \cup PositionsOf(t, "append") : j < i
            /\ Len(scan[t].requests) = db[t].scanFailAt
            /\ Appended(t) = ChunksOfPages(t, db[t].scanFailAt - 1)
C10_FailureStep ==
    \A t \in TableNames :
        (scan[t].state = "requesting" /\ scan'[t].state = "failed")
            => /\ stream'[t] = [stream[t] EXCEPT !.ended = TRUE]
               /\ consumer'[t] = consumer[t]
               /\ scan'[t].requests = scan[t].requests
C10_ScanFailureEndsScan == [](C10_StateAfterScanFailure) /\ [][C10_FailureStep]_vars
C10_Witness ==
    \E t \in TableNames :
        /\ ScanFailed(t)
        /\ db[t].scanFailAt = 2
        /\ Len(Appended(t)) = 2 * MaxItems
        /\ upload[t] = "done"

\* C11: the tables for which a backup is launched are (all enumerated tables
\* minus the excluded ones) intersected with the included ones, the included
\* ones defaulting to all; a table both included and excluded is not
\* launched, and nothing is ever requested for an excluded table.
SetOf(xs) == {xs[i] : i \in 1..Len(xs)}
AccountNames == UNION {SetOf(account.pages[i].names) : i \in 1..Len(account.pages)}
Launched == {t \in TableNames : trace[t] # <<>>}
ExpectedSelection ==
    (AccountNames \ SetOf(options.excludedTables))
        \cap (IF options.includedTables.defined THEN SetOf(options.includedTables.names) ELSE AccountNames)
Untouched(t) ==
    /\ trace[t] = <<>>
    /\ scan[t].state = "idle" /\ scan[t].requests = <<>>
    /\ upload[t] = "idle"
    /\ stream[t] = NewStream
C11_SelectionIsDifferenceThenIntersection ==
    /\ agg.phase = "running" => Launched = ExpectedSelection
    /\ agg.phase # "running" => Launched = {}
    /\ \A t \in TableNames : t \in SetOf(options.excludedTables) => Untouched(t)
    /\ \A t \in TableNames : Len(EventsOf(t, "start-backup")) <= 1
C11_Witness ==
    /\ agg.phase = "running"
    /\ options.excludedTables = <<"T1">>
    /\ options.includedTables = [defined |-> TRUE, names |-> <<"T2", "T1">>]
    /\ Untouched("T1")
    /\ scan["T2"].requests # <<>>

\* C12: when a list request fails the aggregate callback is invoked with
\* that error and no table list, no further list request is issued, and no
\* table's backup is started: no event, request, stream or upload of any
\* table.
C12_ListFailureAbortsRun ==
    /\ agg.phase = "failed" =>
          /\ agg.calls = <<"ListError">>
          /\ Len(agg.listed) = 1
          /\ agg.listed[1].err = "ListError" /\ agg.listed[1].isNull /\ agg.listed[1].tables = <<>>
          /\ Len(agg.listRequests) = account.failAt
          /\ agg.tables = <<>>
          /\ \A t \in TableNames : Untouched(t)
    /\ (account.failAt # NoFail /\ Len(agg.listRequests) >= account.failAt)
          => agg.phase \in {"listing", "failed"}
C12_Witness ==
    /\ agg.phase = "failed"
    /\ account.failAt = 2
    /\ agg.names # <<>>
    /\ agg.calls = <<"ListError">>

\* C13: the first list request has no start marker, each later one starts
\* at the marker of the previous response, the enumeration stops at the first
\* response without a marker, and when no request failed the result is the
\* names of the pages in the order returned, each once.
RECURSIVE NamesOfPages(_)
NamesOfPages(n) ==
    IF n = 0 THEN <<>> ELSE NamesOfPages(n - 1) \o account.pages[n].names
C13_ListIsConcatenationOfPages ==
    LET req == agg.listRequests
    IN  /\ Len(req) >= 1 => req[1] = NoName
        /\ Len(req) <= Len(account.pages)
        /\ \A i \in 2..Len(req) :
              req[i] = account.pages[i - 1].marker /\ req[i] # NoName
        /\ Len(agg.listed) <= 1
        /\ \A i \in 1..Len(agg.listed) :
              agg.listed[i].err = NoErr
                  => /\ ~agg.listed[i].isNull
                     /\ account.pages[Len(req)].marker = NoName
                     /\ agg.listed[i].tables = NamesOfPages(Len(req))
                     /\ Len(agg.listed[i].tables) = Cardinality(SetOf(agg.listed[i].tables))
        /\ (agg.phase = "listing" /\ account.failAt = NoFail) => agg.listed = <<>>
C13_Witness ==
    /\ agg.listRequests = <<NoName, "T2">>
    /\ Len(agg.listed) = 1
    /\ agg.listed[1].err = NoErr
    /\ agg.listed[1].tables = <<"T2", "T1">>

\* C14 (as claimed): the Limit of every scan request is
\* max(floor(ReadCapacityUnits x fraction), 1), whatever the capacity, also
\* when the product is beyond the signed word.
Share(t) == (db[t].rcu * options.readPercentage) \div 100
C14_LimitIsFloorOfShare ==
    \A t \in TableNames : \A i \in 1..Len(scan[t].requests) :
        /\ scan[t].requests[i].Limit >= 1
        /\ scan[t].requests[i].Limit = IF Share(t) >= 1 THEN Share(t) ELSE 1

\* C15: every describe or scan request failure and every upload failure of
\* a table produces exactly one error event, carrying the table's name and
\* that error, whichever comes first and whether or not the other one fails
\* too; there is no other error event.
ErrorEvents(t, err) == {i \in PositionsOf(t, "error") : trace[t][i].arg = <<t, err>>}
ScanSideError(t) == IF db[t].scanFailAt = DescribeFails THEN "DescribeError" ELSE "ScanError"
UploadFailed(t) == upload[t] = "done" /\ db[t].uploadFails
C15_OneErrorEventPerFailure ==
    \A t \in TableNames :
        /\ Cardinality(ErrorEvents(t, ScanSideError(t))) = IF scan[t].state = "failed" THEN 1 ELSE 0
        /\ Cardinality(ErrorEvents(t, "UploadError")) = IF UploadFailed(t) THEN 1 ELSE 0
        /\ PositionsOf(t, "error") = ErrorEvents(t, ScanSideError(t)) \cup ErrorEvents(t, "UploadError")
C15_Witness ==
    \E t \in TableNames :
        /\ scan[t].state = "failed" /\ UploadFailed(t)
        /\ \E i \in ErrorEvents(t, "UploadError") : \E j \in ErrorEvents(t, "ScanError") : i < j
        /\ Len(scan[t].requests) = 2

\* C16 (as claimed): start-backup is emitted once and before every request
\* and append of the table; end-backup is emitted at most once and only
\* after the scan has finished (onDone was invoked, and no scan request or
\* append follows it) and the upload has finished.
C16_LifecycleBracketsTable ==
    \A t \in TableNames :
        /\ trace[t] # <<>> => PositionsOf(t, "start-backup") = {1}
        /\ Cardinality(PositionsOf(t, "end-backup")) <= 1
        /\ \A i \in PositionsOf(t, "end-backup") :
              /\ upload[t] = "done"
              /\ \E j \in PositionsOf(t, "onDone") : j < i
              /\ \A j \in PositionsOf(t, "scan") \cup PositionsOf(t, "append") : j < i

\* C17: with re-keying enabled, the line of every record whose tags are all
\* known is the record with, at every level (attributes, values of M maps,
\* elements of L lists), each tag replaced by its output key holding the
\* original value: no original tag is left in the line and the attributes
\* keep their names and their order.
OutputKey ==
    [S |-> "s", N |-> "n", B |-> "b", M |-> "m", L |-> "l", NULL |-> "null",
     BOOL |-> "bOOL", SS |-> "sS", NS |-> "nS", BS |-> "bS"]
RECURSIVE Rekeyed(_)
RekeyedValue(tv) ==
    LET tag == tv.kv[1].k
        held == tv.kv[1].v
    IN  Obj(<<Member(OutputKey[tag], IF tag \in {"M", "L"} THEN Rekeyed(held) ELSE held)>>)
Rekeyed(attrs) ==
    [attrs EXCEPT !.kv = [i \in 1..Len(attrs.kv) |-> Member(attrs.kv[i].k, RekeyedValue(attrs.kv[i].v))]]
RECURSIVE AllShapes(_, _)
AllShapes(t, n) == IF n = 0 THEN <<>> ELSE AllShapes(t, n - 1) \o db[t].pages[n]
RECURSIVE AllItems(_, _)
AllItems(t, n) == IF n = 0 THEN <<>> ELSE AllItems(t, n - 1) \o PageItems(t, n)
ScanSideEnded(t) == scan[t].state \in {"complete", "failed"}
C18_StateOfSink ==
    \A t \in TableNames :
        ~RekeyFails(t) =>
            /\ Cardinality(PositionsOf(t, "onDone")) = IF ScanSideEnded(t) THEN 1 ELSE 0
            /\ Cardinality(PositionsOf(t, "end")) = Cardinality(PositionsOf(t, "onDone"))
            /\ \A i \in PositionsOf(t, "onDone") : i + 1 \in PositionsOf(t, "end")
            /\ stream[t].ended <=> ScanSideEnded(t)
            /\ scan[t].state \in {"describing", "requesting"} => trace[t] # <<>>
            /\ (scan[t].state = "failed" /\ db[t].scanFailAt = DescribeFails)
                  => scan[t].requests = <<>> /\ PositionsOf(t, "scan") = {}
C18_CloseStep ==
    \A t \in TableNames :
        (~RekeyFails(t) /\ stream[t].ended # stream'[t].ended)
            => /\ ~stream[t].ended
               /\ scan[t].state \in {"describing", "requesting"}
               /\ ScanSideEnded(t)'
C18_SinkClosedOnceAtScanEnd == [](C18_StateOfSink) /\ [][C18_CloseStep]_vars
C18_Witness ==
    \E t \in TableNames :
        /\ ~RekeyFails(t)
        /\ scan[t].state = "complete"
        /\ Len(scan[t].requests) = MaxPages
        /\ Len(Appended(t)) = 2 * MaxPages * MaxItems
        /\ stream[t].ended
        /\ Cardinality(PositionsOf(t, "end")) = 1

\* C19: nothing is appended to the sink after it was closed: after the
\* scan-done callback no onPage is invoked and no chunk is appended, and a
\* closed stream takes no chunk.
C19_StateAfterClose ==
    \A t \in TableNames :
        \A i \in PositionsOf(t, "onDone") \cup PositionsOf(t, "end") :
            \A j \in PositionsOf(t, "append") \cup PositionsOf(t, "onPage") : j < i
C19_ClosedStreamStep ==
    \A t \in TableNames :
        stream[t].ended
            => /\ Appended(t)' = Appended(t)
               /\ stream'[t].data = stream[t].data
               /\ stream'[t].ended
C19_NoAppendAfterClose == [](C19_StateAfterClose) /\ [][C19_ClosedStreamStep]_vars
C19_Witness ==
    \E t \in TableNames :
        /\ stream[t].ended
        /\ Len(Appended(t)) = 2 * MaxPages * MaxItems
        /\ consumer[t].endSeen

\* C20 (as claimed): every started backupTable eventually invokes its
\* callback, and never twice; once the tables are started the aggregate
\* callback is eventually invoked, and never twice, also when several
\* tables fail with stopOnFailure.
C20_AtMostOnce ==
    /\ \A t \in TableNames : Cardinality(PositionsOf(t, "callback")) <= 1
    /\ Len(agg.calls) <= 1
C20_EveryTableCallsBack ==
    /\ []C20_AtMostOnce
    /\ \A t \in TableNames : (trace[t] # <<>>) ~> Finished(t)
    /\ (agg.phase = "running") ~> (agg.calls # <<>>)

====
